---------------------------- MODULE Spec2Model ----------------------------
(***************************************************************************)
(* A model of llm-pdf-parse: the per-document analysis pipeline            *)
(* (GeminiPDFAnalyzer.analyze_pdf, gemini_client.py), the batch loop       *)
(* (analyze_pdfs, app.py) and the response extractor                       *)
(* (_parse_json_response, gemini_client.py).                               *)
(*                                                                         *)
(* Text is a sequence of characters, each a one-character string, so that  *)
(* strip(), the fence regular expression and json.loads are computed       *)
(* character by character.                                                 *)
(***************************************************************************)
EXTENDS Integers, Sequences, FiniteSets, TLC

(***************************************************************************)
(* Bounds of the model.                                                    *)
(***************************************************************************)
\* Longest text drawn from Alphabet as an arbitrary extractor input.
MaxLen == 3
\* Largest number of documents in a batch.
MaxDocs == 2
\* Largest configured max_retries considered (the UI allows 0..5).
MaxRetries == 2
\* Most columns a user adds to the column list.
MaxColumns == 3

(***************************************************************************)
(* Text helpers.                                                           *)
(***************************************************************************)
\* The characters str.strip() removes and the regular expression's \s matches
\* (those that occur in the texts of this model).
PyWhitespace == {" ", "\n", "\t", "\r"}

\* The characters json.loads skips between tokens (json.decoder WHITESPACE).
JsonWhitespace == {" ", "\t", "\n", "\r"}

\* Characters json.loads rejects inside a string literal (strict mode).
ControlChars == {"\n", "\t", "\r"}

Digits == <<"0", "1", "2", "3", "4", "5", "6", "7", "8", "9">>

IsDigit(c) == \E d \in 1..10 : Digits[d] = c

DigitValue(c) == (CHOOSE d \in 1..10 : Digits[d] = c) - 1

\* s[i..] starts with the text p.
StartsWithAt(s, p, i) ==
    /\ i + Len(p) - 1 <= Len(s)
    /\ \A k \in 1..Len(p) : s[i + k - 1] = p[k]

\* str.strip(): drop leading and trailing whitespace.
Strip(s) ==
    LET keep == {i \in 1..Len(s) : s[i] \notin PyWhitespace}
    IN  IF keep = {} THEN <<>>
        ELSE LET lo == CHOOSE i \in keep : \A j \in keep : i <= j
                 hi == CHOOSE i \in keep : \A j \in keep : j <= i
             IN  SubSeq(s, lo, hi)

RECURSIVE Concat(_)
\* ''.join(parts)
Concat(parts) ==
    IF parts = <<>> THEN <<>> ELSE Head(parts) \o Concat(Tail(parts))


\* s[i:i+1]: the character at position i, or the empty string past the end.
CharAt(s, i) == IF i >= 1 /\ i <= Len(s) THEN s[i] ELSE ""

(***************************************************************************)
(* The fence pattern of _parse_json_response,                              *)
(*     ^```(?:json)?\s*\n(.*?)\n```$        (re.match, re.DOTALL)          *)
(* FenceMatch(s) is the match object: matched, and group(1).               *)
(***************************************************************************)
\* The backtick character (a string literal cannot hold one).
Backtick == "BACKTICK"

Ticks == <<Backtick, Backtick, Backtick>>

JsonTag == <<"j", "s", "o", "n">>

NoMatch == [matched |-> FALSE, group |-> <<>>]

\* Where $ matches: at the end, or just before a newline that ends the text.
\* The closing ``` must end there; after it comes nothing or that newline.
FenceEnd(s) == IF CharAt(s, Len(s)) = "\n" THEN Len(s) - 1 ELSE Len(s)

\* The positions i >= p at which \s*\n can end: s[p..i-1] is whitespace,
\* s[i] is the newline, and \n``` still fits between i and the end e.
OpeningNewlines(s, p, e) ==
    {i \in p..(e - 4) :
        /\ s[i] = "\n"
        /\ \A k \in p..(i - 1) : s[k] \in PyWhitespace
        /\ s[e - 3] = "\n"
        /\ StartsWithAt(s, Ticks, e - 2)}

\* The match that starts the whitespace run at p: \s* is greedy, so the last
\* admissible newline is the one \n takes; (.*?) is then fixed by $.
FenceMatchFrom(s, p) ==
    LET e    == FenceEnd(s)
        cand == OpeningNewlines(s, p, e)
    IN  IF cand = {} THEN NoMatch
        ELSE LET i == CHOOSE x \in cand : \A y \in cand : y <= x
             IN  [matched |-> TRUE, group |-> SubSeq(s, i + 1, e - 4)]

\* FenceMatch with the tag made mandatory: ^```json\s*\n(.*?)\n```$
FenceMatchTagRequired(s) ==
    IF StartsWithAt(s, Ticks, 1) /\ StartsWithAt(s, JsonTag, 4)
    THEN FenceMatchFrom(s, 8) ELSE NoMatch

\* (?:json)? is greedy: the tagged alternative is tried first.
FenceMatch(s) ==
    IF ~StartsWithAt(s, Ticks, 1) THEN NoMatch
    ELSE LET tagged == IF StartsWithAt(s, JsonTag, 4)
                       THEN FenceMatchFrom(s, 8) ELSE NoMatch
         IN  IF tagged.matched THEN tagged ELSE FenceMatchFrom(s, 4)

(***************************************************************************)
(* JSON values as json.loads builds them, tagged by their Python type.     *)
(* A dict is its sequence of (key, value) items in insertion order.        *)
(***************************************************************************)
JStr(chars) == [t |-> "str", v |-> chars]

JInt(n) == [t |-> "int", v |-> <<n>>]

JFloat(text) == [t |-> "float", v |-> text]

JBool(b) == [t |-> "bool", v |-> <<b>>]

JNull == [t |-> "NoneType", v |-> <<>>]

JList(items) == [t |-> "list", v |-> items]

JDict(items) == [t |-> "dict", v |-> items]

Item(key, val) == [k |-> key, val |-> val]

\* d[key] = val on a dict's items: a key already present keeps its place and
\* takes the new value.
DictSet(items, key, val) ==
    IF \E i \in 1..Len(items) : items[i].k = key
    THEN [i \in 1..Len(items) |->
            IF items[i].k = key THEN Item(key, val) ELSE items[i]]
    ELSE Append(items, Item(key, val))

DictKeys(d) == {d.v[i].k : i \in 1..Len(d.v)}

(***************************************************************************)
(* json.loads, as json.decoder and json.scanner compute it, on texts that  *)
(* hold no backslash, no fraction and no exponent (none of the texts of    *)
(* this model does).  A parse step yields [ok, val, next]: whether it      *)
(* succeeded, the value, and the position after it.  The texts of this     *)
(* model are short: json.loads' RecursionError (nesting beyond the         *)
(* interpreter's recursion limit) and ValueError (an integer beyond its    *)
(* digit limit), neither a JSONDecodeError, lie outside it.                *)
(***************************************************************************)
ParseError == [ok |-> FALSE, val |-> JNull, next |-> 0]

Parsed(val, next) == [ok |-> TRUE, val |-> val, next |-> next]

RECURSIVE SkipWs(_, _)
\* WHITESPACE.match(s, i).end()
SkipWs(s, i) ==
    IF CharAt(s, i) \in JsonWhitespace THEN SkipWs(s, i + 1) ELSE i

\* scanstring(s, i): i is the position after the opening quote.  The value
\* is the text up to the closing quote; a control character before it, or no
\* closing quote, is an error.
ScanString(s, i) ==
    LET quotes == {j \in i..Len(s) : s[j] = "\""}
    IN  IF quotes = {} THEN ParseError
        ELSE LET close == CHOOSE j \in quotes : \A k \in quotes : j <= k
             IN  IF \E k \in i..(close - 1) : s[k] \in ControlChars
                 THEN ParseError
                 ELSE Parsed(SubSeq(s, i, close - 1), close + 1)

RECURSIVE DigitsEnd(_, _)
\* The position after the run of digits that starts at i.
DigitsEnd(s, i) == IF IsDigit(CharAt(s, i)) THEN DigitsEnd(s, i + 1) ELSE i

RECURSIVE DecimalValue(_)
\* int(text) of a run of digits.
DecimalValue(ds) ==
    IF ds = <<>> THEN 0
    ELSE 10 * DecimalValue(SubSeq(ds, 1, Len(ds) - 1)) + DigitValue(ds[Len(ds)])

\* NUMBER_RE = (-?(?:0|[1-9]\d*)) without fraction or exponent: '0' alone,
\* or a run of digits that starts with 1..9.
ScanNumber(s, i) ==
    LET neg  == CharAt(s, i) = "-"
        d    == IF neg THEN i + 1 ELSE i
        stop == IF CharAt(s, d) = "0" THEN d + 1 ELSE DigitsEnd(s, d)
    IN  IF ~IsDigit(CharAt(s, d)) THEN ParseError
        ELSE LET n == DecimalValue(SubSeq(s, d, stop - 1))
             IN  Parsed(JInt(IF neg THEN 0 - n ELSE n), stop)

RECURSIVE ScanOnce(_, _)
RECURSIVE ScanMembers(_, _, _)
RECURSIVE ScanElements(_, _, _)

\* JSONObject's loop: i is the position after a key's opening quote, items
\* the pairs read so far.
ScanMembers(s, i, items) ==
    LET key == ScanString(s, i)
    IN  IF ~key.ok THEN ParseError
        ELSE LET colon == SkipWs(s, key.next)
             IN  IF CharAt(s, colon) # ":" THEN ParseError
                 ELSE LET val == ScanOnce(s, SkipWs(s, colon + 1))
                      IN  IF ~val.ok THEN ParseError
                          ELSE LET sep  == SkipWs(s, val.next)
                                   more == DictSet(items, key.val, val.val)
                               IN  IF CharAt(s, sep) = "}"
                                   THEN Parsed(JDict(more), sep + 1)
                                   ELSE IF CharAt(s, sep) # "," THEN ParseError
                                   ELSE LET q == SkipWs(s, sep + 1)
                                        IN  IF CharAt(s, q) # "\"" THEN ParseError
                                            ELSE ScanMembers(s, q + 1, more)

\* JSONArray's loop: i is the position of the next element.
ScanElements(s, i, items) ==
    LET val == ScanOnce(s, i)
    IN  IF ~val.ok THEN ParseError
        ELSE LET sep  == SkipWs(s, val.next)
                 more == Append(items, val.val)
             IN  IF CharAt(s, sep) = "]" THEN Parsed(JList(more), sep + 1)
                 ELSE IF CharAt(s, sep) # "," THEN ParseError
                 ELSE ScanElements(s, SkipWs(s, sep + 1), more)

\* py_make_scanner's _scan_once(s, i), in its order of tests.
ScanOnce(s, i) ==
    LET c == CharAt(s, i)
    IN  IF c = "" THEN ParseError
        ELSE IF c = "\"" THEN
            LET str == ScanString(s, i + 1)
            IN  IF str.ok THEN Parsed(JStr(str.val), str.next) ELSE ParseError
        ELSE IF c = "{" THEN
            LET q == SkipWs(s, i + 1)
            IN  IF CharAt(s, q) = "}" THEN Parsed(JDict(<<>>), q + 1)
                ELSE IF CharAt(s, q) # "\"" THEN ParseError
                ELSE ScanMembers(s, q + 1, <<>>)
        ELSE IF c = "[" THEN
            LET q == SkipWs(s, i + 1)
            IN  IF CharAt(s, q) = "]" THEN Parsed(JList(<<>>), q + 1)
                ELSE ScanElements(s, q, <<>>)
        ELSE IF StartsWithAt(s, <<"n", "u", "l", "l">>, i)
            THEN Parsed(JNull, i + 4)
        ELSE IF StartsWithAt(s, <<"t", "r", "u", "e">>, i)
            THEN Parsed(JBool(TRUE), i + 4)
        ELSE IF StartsWithAt(s, <<"f", "a", "l", "s", "e">>, i)
            THEN Parsed(JBool(FALSE), i + 5)
        ELSE IF ScanNumber(s, i).ok THEN ScanNumber(s, i)
        ELSE IF StartsWithAt(s, <<"N", "a", "N">>, i)
            THEN Parsed(JFloat(<<"n", "a", "n">>), i + 3)
        ELSE IF StartsWithAt(s, <<"I", "n", "f", "i", "n", "i", "t", "y">>, i)
            THEN Parsed(JFloat(<<"i", "n", "f">>), i + 8)
        ELSE IF StartsWithAt(s, <<"-", "I", "n", "f", "i", "n", "i", "t", "y">>, i)
            THEN Parsed(JFloat(<<"-", "i", "n", "f">>), i + 9)
        ELSE ParseError

\* json.loads(s): one value between optional whitespace, and nothing after
\* it ("Extra data" otherwise).  ok = FALSE stands for JSONDecodeError.
JsonLoads(s) ==
    LET val == ScanOnce(s, SkipWs(s, 1))
    IN  IF val.ok /\ SkipWs(s, val.next) = Len(s) + 1 THEN val ELSE ParseError

(***************************************************************************)
(* str(value) and repr(value) of the values json.loads builds.             *)
(***************************************************************************)
RECURSIVE NatText(_)
\* str(n) for n >= 0.
NatText(n) ==
    IF n < 10 THEN <<Digits[n + 1]>>
    ELSE NatText(n \div 10) \o <<Digits[(n % 10) + 1]>>

IntText(n) == IF n < 0 THEN <<"-">> \o NatText(0 - n) ELSE NatText(n)

\* repr of a str that holds no double quote, backslash or control character
\* (json.loads yields no other here): single quotes, or double quotes when
\* the text holds a single quote.
StrRepr(chars) ==
    IF \E i \in 1..Len(chars) : chars[i] = "'"
    THEN <<"\"">> \o chars \o <<"\"">>
    ELSE <<"'">> \o chars \o <<"'">>

RECURSIVE PyRepr(_)
RECURSIVE JoinRepr(_)
RECURSIVE JoinItems(_)

\* ", ".join(repr(x) for x in items)
JoinRepr(items) ==
    IF items = <<>> THEN <<>>
    ELSE IF Len(items) = 1 THEN PyRepr(items[1])
    ELSE PyRepr(items[1]) \o <<",", " ">> \o JoinRepr(Tail(items))

\* ", ".join(repr(k) + ": " + repr(v) for k, v in d.items())
JoinItems(items) ==
    LET one == StrRepr(items[1].k) \o <<":", " ">> \o PyRepr(items[1].val)
    IN  IF items = <<>> THEN <<>>
        ELSE IF Len(items) = 1 THEN one
        ELSE one \o <<",", " ">> \o JoinItems(Tail(items))

PyRepr(x) ==
    CASE x.t = "str"      -> StrRepr(x.v)
      [] x.t = "int"      -> IntText(x.v[1])
      [] x.t = "float"    -> x.v
      [] x.t = "bool"     -> IF x.v[1] THEN <<"T", "r", "u", "e">>
                                       ELSE <<"F", "a", "l", "s", "e">>
      [] x.t = "NoneType" -> <<"N", "o", "n", "e">>
      [] x.t = "list"     -> <<"[">> \o JoinRepr(x.v) \o <<"]">>
      [] x.t = "dict"     -> <<"{">> \o JoinItems(x.v) \o <<"}">>

\* str(x): the text itself for a str, repr(x) for the other types.
PyStr(x) == IF x.t = "str" THEN x.v ELSE PyRepr(x)

(***************************************************************************)
(* GeminiPDFAnalyzer._parse_json_response                                  *)
(***************************************************************************)
\* The key "Raw Response".
RawResponse == <<"R", "a", "w", " ", "R", "e", "s", "p", "o", "n", "s", "e">>

\* {"Raw Response": text}
RawResponseDict(text) == JDict(<<Item(RawResponse, JStr(text))>>)

\* cleaned_text after the fence is removed: the stripped text, or the
\* stripped group(1) when the pattern matches.
CleanedText(response_text) ==
    LET cleaned_text == Strip(response_text)
        match        == FenceMatch(cleaned_text)
    IN  IF match.matched THEN Strip(match.group) ELSE cleaned_text

\* parse_json_response without the isinstance test: any parsed value is
\* returned as it is.
parse_json_response_unchecked(response_text) ==
    LET result == JsonLoads(CleanedText(response_text))
    IN  IF result.ok THEN result.val ELSE RawResponseDict(response_text)

\* parse_json_response whose fallback holds the cleaned text, not the
\* original one.
parse_json_response_cleaned(response_text) ==
    LET result == JsonLoads(CleanedText(response_text))
    IN  IF result.ok
        THEN IF result.val.t = "dict" THEN result.val
             ELSE RawResponseDict(PyStr(result.val))
        ELSE RawResponseDict(CleanedText(response_text))

\* parse_json_response without the fallback: a text that is not JSON gives
\* the empty mapping.
parse_json_response_no_fallback(response_text) ==
    LET result == JsonLoads(CleanedText(response_text))
    IN  IF result.ok
        THEN IF result.val.t = "dict" THEN result.val
             ELSE RawResponseDict(PyStr(result.val))
        ELSE JDict(<<>>)

parse_json_response(response_text) ==
    LET result == JsonLoads(CleanedText(response_text))
    IN  IF result.ok
        THEN IF result.val.t = "dict" THEN result.val
             ELSE RawResponseDict(PyStr(result.val))
        ELSE RawResponseDict(response_text)

(***************************************************************************)
(* State.                                                                  *)
(***************************************************************************)
VARIABLES
    max_retries,        \* GeminiPDFAnalyzer.max_retries
    pdf_files,          \* analyze_pdfs' argument: (file_path, filename, pdf_bytes)
    results,            \* st.session_state.results
    filenames,          \* st.session_state.filenames
    processing_status,  \* st.session_state.processing_status
    progress,           \* the values given to the progress bar, in order
    idx,                \* analyze_pdfs' loop index
    pc,                 \* the statement the program is at
    temp_file_path,     \* analyze_pdf's local
    uploaded_file,      \* analyze_pdf's local
    attempt,            \* _generate_content_with_retry's loop variable
    last_exception,     \* _generate_content_with_retry's local
    response_text,      \* analyze_pdf's local
    result_dict,        \* analyze_pdf's local
    returned,           \* what analyze_pdf returns: (success, record, reason)
    temp_files,         \* the temp files that exist on disk
    remote_files,       \* the files the remote service holds
    events,             \* the calls the current analyze_pdf made, in order
    ex_call,            \* an extractor call on its own: how its text was built
    ex_result,          \* that call's result: <<>> before it returns
    api_key,            \* os.environ.get("GEMINI_API_KEY")
    columns,            \* st.session_state.columns
    prompt_text,        \* st.session_state.prompt_text
    new_column_input,   \* st.session_state.new_column_input
    uploaded_template,  \* the file in the "Load Template" uploader
    template,           \* the template save_template offers for download
    formatted_results,  \* what format_results_for_export returned
    full_prompt         \* what build_analysis_prompt returned

vars == <<max_retries, pdf_files, results, filenames, processing_status,
          progress, idx, pc, temp_file_path, uploaded_file, attempt,
          last_exception, response_text, result_dict, returned, temp_files,
          remote_files, events, ex_call, ex_result, api_key, columns,
          prompt_text, new_column_input, uploaded_template, template,
          formatted_results, full_prompt>>

session == <<results, filenames, processing_status>>

locals == <<temp_file_path, uploaded_file, attempt, last_exception,
            response_text, result_dict, returned>>

extractor == <<ex_call, ex_result>>

settings == <<api_key, columns, prompt_text, new_column_input,
              uploaded_template>>

outputs == <<template, formatted_results, full_prompt>>

\* Python's None, where the other values are texts or tuples.
None == <<>>

\* os.environ.get of a variable that is not set: None, where the other
\* values are texts (the empty text among them).
Unset == <<"None">>

\* The reserved column name.
DocumentName ==
    <<"D", "o", "c", "u", "m", "e", "n", "t", " ", "N", "a", "m", "e">>

\* A column name and a prompt a user may enter.
Summary == <<"S", "u", "m", "m", "a", "r", "y">>

PromptX == <<"X">>

\* A value of GEMINI_API_KEY.
SomeKey == <<"k", "e", "y">>

\* api_delay's default, in seconds.
DefaultApiDelay == 1

\* The name of the k-th document of a batch.
FileName(k) == "doc" \o ToString(k) \o ".pdf"

\* A batch of n uploaded documents (app.py appends (None, name, bytes)).
Batch(n) == [k \in 1..n |-> <<None, FileName(k), <<"bytes", k>>>>]

\* The document analyze_pdfs is at, and what the environment gives it: the
\* name NamedTemporaryFile picks and the file object the upload returns.
Doc == idx + 1

CurrentFilename == pdf_files[Doc][2]

TempPath == <<"tmp", Doc>>

RemoteFile == <<"files", Doc>>

(***************************************************************************)
(* What the remote service and the file system may answer.                 *)
(***************************************************************************)
\* str(e) of the errors the calls raise.
WriteError == <<"No space left on device">>

UploadError == <<"upload failed">>

GenerateErrors == {<<"503 UNAVAILABLE">>}

FormatError == <<"Unexpected response format from Gemini">>

\* ```json\n{"Summary": "ok"}\n\n```
FencedSummary ==
    Ticks \o JsonTag \o <<"\n">> \o
    <<"{", "\"", "S", "u", "m", "m", "a", "r", "y", "\"", ":", " ",
      "\"", "o", "k", "\"", "}", "\n">> \o
    <<"\n">> \o Ticks

NotJson == <<"n", "o", "t", " ", "j", "s", "o", "n">>

\* A response: whether it has a text attribute, whether it has parts, and
\* each part's text (None for a part without a text attribute).
Response(has_text, text, has_parts, parts) ==
    [has_text |-> has_text, text |-> text, has_parts |-> has_parts, parts |-> parts]

\* What generate_content may return: a response with a text (a fenced JSON
\* object), one with parts only (the second part has no text; the texts
\* join to a text that is not JSON), and one with neither.
Responses ==
    { Response(TRUE, FencedSummary, TRUE, <<NotJson>>),
      Response(FALSE, None, TRUE, <<<<"n", "o", "t">>, None, <<" ", "j", "s", "o", "n">>>>),
      Response(FALSE, None, FALSE, <<>>) }

RECURSIVE JoinParts(_)
\* ''.join(part.text for part in parts if hasattr(part, 'text'))
JoinParts(parts) ==
    IF parts = <<>> THEN <<>>
    ELSE (IF Head(parts) = None THEN <<>> ELSE Head(parts)) \o JoinParts(Tail(parts))

\* Lines 166-171: the text of a response, or the ValueError.
ExtractText(response) ==
    IF response.has_text THEN [ok |-> TRUE, text |-> response.text]
    ELSE IF response.has_parts
         THEN [ok |-> TRUE, text |-> JoinParts(response.parts)]
         ELSE [ok |-> FALSE, text |-> FormatError]

\* An exponential backoff: 1, 2, 4, ...
WaitTimeExponential(i) == 2 ^ i

\* wait_time = (attempt + 1) * 2
WaitTime(i) == (i + 1) * 2

\* f"Error analyzing {filename}: {str(e)}"
ErrorMsg(filename, e) == <<"Error analyzing ", filename, ": ">> \o e

Event(op, arg) == <<op, arg>>

EventsOf(op) == SelectSeq(events, LAMBDA ev : ev[1] = op)

(***************************************************************************)
(* Initial state: the session state initialize_session_state builds, and a *)
(* batch and a retry count chosen by the user.                             *)
(***************************************************************************)
NoCall == [body |-> <<>>, fence |-> <<>>, response_text |-> <<>>]

Init ==
    /\ max_retries \in 0..MaxRetries
    /\ pdf_files \in {Batch(n) : n \in 0..MaxDocs}
    /\ results = <<>>
    /\ filenames = <<>>
    /\ processing_status = <<>>
    /\ progress = <<>>
    /\ idx = 0
    /\ pc = "ready"
    /\ temp_file_path = None
    /\ uploaded_file = None
    /\ attempt = 0
    /\ last_exception = None
    /\ response_text = None
    /\ result_dict = None
    /\ returned = None
    /\ temp_files = {}
    /\ remote_files = {}
    /\ events = <<>>
    /\ ex_call = NoCall
    /\ ex_result = <<>>
    /\ api_key = SomeKey
    /\ columns = <<DocumentName, Summary>>
    /\ prompt_text = PromptX
    /\ new_column_input = <<>>
    /\ uploaded_template = None
    /\ template = None
    /\ formatted_results = None
    /\ full_prompt = None

(***************************************************************************)
(* analyze_pdfs (app.py)                                                   *)
(***************************************************************************)
\* ---------------------------------------------------------------------
\* The prompt builder (src/prompt_builder.py)
\* ---------------------------------------------------------------------

UpperLetters ==
    <<"A", "B", "C", "D", "E", "F", "G", "H", "I", "J", "K", "L", "M", "N",
      "O", "P", "Q", "R", "S", "T", "U", "V", "W", "X", "Y", "Z">>

LowerLetters ==
    <<"a", "b", "c", "d", "e", "f", "g", "h", "i", "j", "k", "l", "m", "n",
      "o", "p", "q", "r", "s", "t", "u", "v", "w", "x", "y", "z">>

\* str.lower() on one character, for the ASCII letters.
LowerChar(c) ==
    IF \E i \in 1..26 : UpperLetters[i] = c
    THEN LowerLetters[CHOOSE i \in 1..26 : UpperLetters[i] = c]
    ELSE c

Lower(text) == [i \in 1..Len(text) |-> LowerChar(text[i])]

\* Line 24: the literal the column names are compared with, in lower case.
DocumentNameLower ==
    <<"d", "o", "c", "u", "m", "e", "n", "t", " ", "n", "a", "m", "e">>

\* Line 24: the columns other than the document name, compared without
\* regard to case.
RECURSIVE OutputColumns(_)
OutputColumns(column_names) ==
    IF column_names = <<>> THEN <<>>
    ELSE IF Lower(Head(column_names)) # DocumentNameLower
         THEN <<Head(column_names)>> \o OutputColumns(Tail(column_names))
         ELSE OutputColumns(Tail(column_names))

\* Line 30: each name between double quotes, joined with ", ".
RECURSIVE ColumnList(_)
ColumnList(output_columns) ==
    IF output_columns = <<>> THEN <<>>
    ELSE IF Len(output_columns) = 1 THEN <<"\"">> \o Head(output_columns) \o <<"\"">>
    ELSE <<"\"">> \o Head(output_columns) \o <<"\"", ",", " ">>
         \o ColumnList(Tail(output_columns))

\* Lines 32-34: the instruction before the list of keys.
InstructionHead ==
    <<"\n", "\n", "B", "a", "s", "e", "d", " ", "o", "n", " ", "y", "o", "u",
      "r", " ", "a", "n", "a", "l", "y", "s", "i", "s", ",", " ", "r", "e",
      "t", "u", "r", "n", " ", "y", "o", "u", "r", " ", "f", "i", "n", "d",
      "i", "n", "g", "s", " ", "a", "s", " ", "a", " ", "J", "S", "O", "N",
      " ", "o", "b", "j", "e", "c", "t", " ", "w", "i", "t", "h", " ", "e",
      "x", "a", "c", "t", "l", "y", " ", "t", "h", "e", "s", "e", " ", "k",
      "e", "y", "s", ":", " ">>

\* Lines 34-38: the instruction after the list of keys.
InstructionTail ==
    <<"\n", "\n", "E", "a", "c", "h", " ", "v", "a", "l", "u", "e", " ", "s",
      "h", "o", "u", "l", "d", " ", "b", "e", " ", "a", " ", "s", "t", "r",
      "i", "n", "g", ".", " ", "I", "f", " ", "i", "n", "f", "o", "r", "m",
      "a", "t", "i", "o", "n", " ", "f", "o", "r", " ", "a", " ", "f", "i",
      "e", "l", "d", " ", "i", "s", " ", "n", "o", "t", " ", "f", "o", "u",
      "n", "d", ",", " ", "u", "s", "e", " ", "\"", "N", "/", "A", "\"", ".",
      "\n", "\n", "R", "e", "t", "u", "r", "n", " ", "O", "N", "L", "Y", " ",
      "t", "h", "e", " ", "J", "S", "O", "N", " ", "o", "b", "j", "e", "c",
      "t", ",", " ", "n", "o", " ", "a", "d", "d", "i", "t", "i", "o", "n",
      "a", "l", " ", "t", "e", "x", "t", " ", "o", "r", " ", "m", "a", "r",
      "k", "d", "o", "w", "n", " ", "f", "o", "r", "m", "a", "t", "t", "i",
      "n", "g", ".">>

\* Lines 10-40.
build_analysis_prompt(user_prompt, column_names) ==
    LET output_columns == OutputColumns(column_names)
    IN  IF output_columns = <<>> THEN user_prompt
        ELSE user_prompt \o InstructionHead \o ColumnList(output_columns)
             \o InstructionTail

\* StartAnalysis without lines 144-146: the lists of the session are kept.
StartAnalysisKeepingResults ==
    /\ pc = "ready"
    /\ full_prompt' = build_analysis_prompt(prompt_text, columns)
    /\ progress' = <<<<0, 1>>>>
    /\ idx' = 0
    /\ pc' = "loop"
    /\ UNCHANGED <<max_retries, pdf_files, session, locals, temp_files,
                   remote_files, events, extractor, settings, template,
                   formatted_results>>

\* Lines 141-150: build the full prompt, reset the session lists, create
\* the progress bar at 0.
StartAnalysis ==
    /\ pc = "ready"
    /\ full_prompt' = build_analysis_prompt(prompt_text, columns)
    /\ results' = <<>>
    /\ filenames' = <<>>
    /\ processing_status' = <<>>
    /\ progress' = <<<<0, 1>>>>
    /\ idx' = 0
    /\ pc' = "loop"
    /\ UNCHANGED <<max_retries, pdf_files, locals, temp_files, remote_files,
                   events, extractor, settings, template, formatted_results>>

\* Lines 152-162: the next document: progress idx / len(pdf_files), then the
\* call of analyze_pdf, whose locals start at None (lines 62-63).
NextDocument ==
    /\ pc = "loop"
    /\ idx < Len(pdf_files)
    /\ progress' = Append(progress, <<idx, Len(pdf_files)>>)
    /\ temp_file_path' = None
    /\ uploaded_file' = None
    /\ attempt' = 0
    /\ last_exception' = None
    /\ response_text' = None
    /\ result_dict' = None
    /\ returned' = None
    /\ events' = <<>>
    /\ pc' = "write_temp"
    /\ UNCHANGED <<max_retries, pdf_files, session, idx, temp_files,
                   remote_files, extractor,
                   settings, outputs>>

\* The status pairs of lines 173 and 178 (their icons spelled out).
SuccessStatus == <<"check mark", <<"Success">>>>

FailureStatus(error_msg) == <<"cross mark", error_msg>>

\* {"Error": error_msg}
ErrorDict(error_msg) == JDict(<<Item(<<"E", "r", "r", "o", "r">>, JStr(error_msg))>>)

\* Lines 168-180: store what analyze_pdf returned, go on with the loop.
StoreResult ==
    /\ pc = "return"
    /\ filenames' = Append(filenames, CurrentFilename)
    /\ IF returned[1]
       THEN /\ results' = Append(results, returned[2])
            /\ processing_status' = Append(processing_status, SuccessStatus)
       ELSE /\ results' = Append(results, ErrorDict(returned[3]))
            /\ processing_status' =
                   Append(processing_status, FailureStatus(returned[3]))
    /\ idx' = idx + 1
    /\ pc' = "loop"
    /\ UNCHANGED <<max_retries, pdf_files, progress, locals, temp_files,
                   remote_files, events, extractor,
                   settings, outputs>>

\* CompleteProgress without the final progress_bar.progress(1.0).
CompleteProgressSkipped ==
    /\ pc = "loop"
    /\ idx = Len(pdf_files)
    /\ pc' = "done"
    /\ UNCHANGED <<max_retries, pdf_files, session, progress, idx, locals,
                   temp_files, remote_files, events, extractor,
                   settings, outputs>>

\* Lines 182-184: after the loop, progress 1.0.
CompleteProgress ==
    /\ pc = "loop"
    /\ idx = Len(pdf_files)
    /\ progress' = Append(progress, <<1, 1>>)
    /\ pc' = "done"
    /\ UNCHANGED <<max_retries, pdf_files, session, idx, locals, temp_files,
                   remote_files, events, extractor,
                   settings, outputs>>

(***************************************************************************)
(* GeminiPDFAnalyzer.analyze_pdf (gemini_client.py)                        *)
(***************************************************************************)
\* Caught with the cleanup left out of the failure paths (no finally block).
CaughtWithoutCleanup(e) ==
    /\ returned' = <<FALSE, JDict(<<>>), ErrorMsg(CurrentFilename, e)>>
    /\ pc' = "return"

\* Caught without the except clause: the exception leaves analyze_pdf (after
\* the finally block) and ends analyze_pdfs.
CaughtNowhere(e) ==
    /\ returned' = returned
    /\ pc' = "aborted"

\* Lines 83-85: an exception e raised in the try block becomes the returned
\* failure; the finally block follows.
Caught(e) ==
    /\ returned' = <<FALSE, JDict(<<>>), ErrorMsg(CurrentFilename, e)>>
    /\ pc' = "delete_remote"

\* Line 67, _write_temp_pdf returns: the temp file exists and is named.
WriteTempPdf ==
    /\ pc = "write_temp"
    /\ temp_files' = temp_files \cup {TempPath}
    /\ temp_file_path' = TempPath
    /\ events' = Append(events, Event("write_temp", "ok"))
    /\ pc' = "upload"
    /\ UNCHANGED <<max_retries, pdf_files, session, progress, idx,
                   uploaded_file, attempt, last_exception, response_text,
                   result_dict, returned, remote_files, extractor,
                   settings, outputs>>

\* Line 67, _write_temp_pdf raises: NamedTemporaryFile failed (no file), or
\* write failed after it (delete=False leaves the file; its name is lost).
WriteTempPdfFails ==
    /\ pc = "write_temp"
    /\ \E created \in BOOLEAN :
          temp_files' = IF created THEN temp_files \cup {TempPath} ELSE temp_files
    /\ events' = Append(events, Event("write_temp", "raised"))
    /\ Caught(WriteError)
    /\ UNCHANGED <<max_retries, pdf_files, session, progress, idx,
                   temp_file_path, uploaded_file, attempt, last_exception,
                   response_text, result_dict, remote_files, extractor,
                   settings, outputs>>

\* Line 70, _upload_file returns the uploaded file object; line 73 enters
\* _generate_content_with_retry (lines 156-158).
UploadFile ==
    /\ pc = "upload"
    /\ remote_files' = remote_files \cup {RemoteFile}
    /\ uploaded_file' = RemoteFile
    /\ events' = Append(events, Event("upload", "ok"))
    /\ attempt' = 0
    /\ last_exception' = None
    /\ pc' = "generate"
    /\ UNCHANGED <<max_retries, pdf_files, session, progress, idx,
                   temp_file_path, response_text, result_dict, returned,
                   temp_files, extractor,
                   settings, outputs>>

\* UploadFileFails with the upload error swallowed: generation goes on
\* without an uploaded file.
UploadFileFailureIgnored ==
    /\ pc = "upload"
    /\ events' = Append(events, Event("upload", "raised"))
    /\ pc' = "generate"
    /\ UNCHANGED <<max_retries, pdf_files, session, progress, idx, locals,
                   temp_files, remote_files, extractor,
                   settings, outputs>>

\* Line 70, _upload_file raises.
UploadFileFails ==
    /\ pc = "upload"
    /\ events' = Append(events, Event("upload", "raised"))
    /\ Caught(UploadError)
    /\ UNCHANGED <<max_retries, pdf_files, session, progress, idx,
                   temp_file_path, uploaded_file, attempt, last_exception,
                   response_text, result_dict, temp_files, remote_files,
                   extractor,
                   settings, outputs>>

\* Lines 160-169: generate_content returns a response whose text is found.
GenerateContent ==
    /\ pc = "generate"
    /\ \E response \in Responses :
          /\ ExtractText(response).ok
          /\ response_text' = ExtractText(response).text
    /\ events' = Append(events, Event("generate", <<"ok">>))
    /\ pc' = "parse"
    /\ UNCHANGED <<max_retries, pdf_files, session, progress, idx,
                   temp_file_path, uploaded_file, attempt, last_exception,
                   result_dict, returned, temp_files, remote_files, extractor,
                   settings, outputs>>

\* Remember keeping the first exception instead of the last.
RememberFirst(previous, e) == IF previous = None THEN e ELSE previous

\* Line 174.
Remember(previous, e) == e

\* AttemptFailed with the ValueError of line 171 raised past the retry loop:
\* an unexpected response format ends the call at once.
AttemptFailedFormatFatal(e) ==
    /\ last_exception' = Remember(last_exception, e)
    /\ events' = Append(events, Event("generate", e))
    /\ IF attempt < max_retries /\ e # FormatError
       THEN /\ pc' = "backoff"
            /\ UNCHANGED returned
       ELSE Caught(last_exception')

\* Lines 173-180: the attempt raised e (generate_content itself, or the
\* ValueError of line 171): back off, or raise after the last attempt.
AttemptFailed(e) ==
    /\ last_exception' = Remember(last_exception, e)
    /\ events' = Append(events, Event("generate", e))
    /\ IF attempt < max_retries
       THEN /\ pc' = "backoff"
            /\ UNCHANGED returned
       ELSE Caught(last_exception')

GenerateContentFails ==
    /\ pc = "generate"
    /\ \E e \in GenerateErrors \cup
                {ExtractText(r).text : r \in {x \in Responses : ~ExtractText(x).ok}} :
          AttemptFailed(e)
    /\ UNCHANGED <<max_retries, pdf_files, session, progress, idx,
                   temp_file_path, uploaded_file, attempt, response_text,
                   result_dict, temp_files, remote_files, extractor,
                   settings, outputs>>

\* Lines 177-178: time.sleep(wait_time), then the next attempt.
Backoff ==
    /\ pc = "backoff"
    /\ events' = Append(events, Event("backoff", WaitTime(attempt)))
    /\ attempt' = attempt + 1
    /\ pc' = "generate"
    /\ UNCHANGED <<max_retries, pdf_files, session, progress, idx,
                   temp_file_path, uploaded_file, last_exception,
                   response_text, result_dict, returned, temp_files,
                   remote_files, extractor,
                   settings, outputs>>

\* Line 76.
ParseResponse ==
    /\ pc = "parse"
    /\ result_dict' = parse_json_response(response_text)
    /\ events' = Append(events, Event("parse", "ok"))
    /\ pc' = "pace"
    /\ UNCHANGED <<max_retries, pdf_files, session, progress, idx,
                   temp_file_path, uploaded_file, attempt, last_exception,
                   response_text, returned, temp_files, remote_files,
                   extractor,
                   settings, outputs>>

\* Pace without the sleep.
PaceWithoutSleep ==
    /\ pc = "pace"
    /\ returned' = <<TRUE, result_dict, None>>
    /\ pc' = "delete_remote"
    /\ UNCHANGED <<max_retries, pdf_files, session, progress, idx,
                   temp_file_path, uploaded_file, attempt, last_exception,
                   response_text, result_dict, temp_files, remote_files,
                   events, extractor,
                   settings, outputs>>

\* Pace with the uploaded file deleted before the sleep instead of after it.
PaceAfterDelete ==
    /\ pc = "pace"
    /\ remote_files' = remote_files \ {uploaded_file}
    /\ events' = events \o <<Event("delete_remote", "ok"),
                              Event("pace", DefaultApiDelay)>>
    /\ returned' = <<TRUE, result_dict, None>>
    /\ pc' = "remove_temp"
    /\ UNCHANGED <<max_retries, pdf_files, session, progress, idx,
                   temp_file_path, uploaded_file, attempt, last_exception,
                   response_text, result_dict, temp_files, extractor,
                   settings, outputs>>

\* Lines 79-81: time.sleep(self.api_delay); return True, result_dict, None.
Pace ==
    /\ pc = "pace"
    /\ events' = Append(events, Event("pace", DefaultApiDelay))
    /\ returned' = <<TRUE, result_dict, None>>
    /\ pc' = "delete_remote"
    /\ UNCHANGED <<max_retries, pdf_files, session, progress, idx,
                   temp_file_path, uploaded_file, attempt, last_exception,
                   response_text, result_dict, temp_files, remote_files,
                   extractor,
                   settings, outputs>>

\* DeleteRemote without its try/except: an error of files.delete replaces
\* the outcome and skips the removal of the temp file.
DeleteRemoteUnguarded ==
    /\ pc = "delete_remote"
    /\ uploaded_file # None
    /\ \E deleted \in BOOLEAN :
          /\ remote_files' = IF deleted THEN remote_files \ {uploaded_file}
                                        ELSE remote_files
          /\ events' = Append(events,
                 Event("delete_remote", IF deleted THEN "ok" ELSE "raised"))
          /\ IF deleted
             THEN pc' = "remove_temp" /\ UNCHANGED returned
             ELSE pc' = "aborted" /\ returned' = None
    /\ UNCHANGED <<max_retries, pdf_files, session, progress, idx,
                   temp_file_path, uploaded_file, attempt, last_exception,
                   response_text, result_dict, temp_files, extractor,
                   settings, outputs>>

\* Lines 89-93: files.delete on the uploaded file; an error is ignored.
DeleteRemote ==
    /\ pc = "delete_remote"
    /\ uploaded_file # None
    /\ \E deleted \in BOOLEAN :
          /\ remote_files' = IF deleted THEN remote_files \ {uploaded_file}
                                        ELSE remote_files
          /\ events' = Append(events,
                 Event("delete_remote", IF deleted THEN "ok" ELSE "raised"))
    /\ pc' = "remove_temp"
    /\ UNCHANGED <<max_retries, pdf_files, session, progress, idx, locals,
                   temp_files, extractor,
                   settings, outputs>>

\* Line 89, uploaded_file is None: nothing to delete.
NoRemoteFile ==
    /\ pc = "delete_remote"
    /\ uploaded_file = None
    /\ pc' = "remove_temp"
    /\ UNCHANGED <<max_retries, pdf_files, session, progress, idx, locals,
                   temp_files, remote_files, events, extractor,
                   settings, outputs>>

\* Lines 95-99: os.remove on the temp file; an error is ignored.
RemoveTemp ==
    /\ pc = "remove_temp"
    /\ temp_file_path # None
    /\ temp_file_path \in temp_files
    /\ \E removed \in BOOLEAN :
          /\ temp_files' = IF removed THEN temp_files \ {temp_file_path}
                                      ELSE temp_files
          /\ events' = Append(events,
                 Event("remove_temp", IF removed THEN "ok" ELSE "raised"))
    /\ pc' = "return"
    /\ UNCHANGED <<max_retries, pdf_files, session, progress, idx, locals,
                   remote_files, extractor,
                   settings, outputs>>

\* Line 95, no temp file path (or no such file): nothing to remove.
NoTempFile ==
    /\ pc = "remove_temp"
    /\ ~(temp_file_path # None /\ temp_file_path \in temp_files)
    /\ pc' = "return"
    /\ UNCHANGED <<max_retries, pdf_files, session, progress, idx, locals,
                   temp_files, remote_files, events, extractor,
                   settings, outputs>>

Next ==
    \/ StartAnalysis
    \/ NextDocument
    \/ WriteTempPdf
    \/ WriteTempPdfFails
    \/ UploadFile
    \/ UploadFileFails
    \/ GenerateContent
    \/ GenerateContentFails
    \/ Backoff
    \/ ParseResponse
    \/ Pace
    \/ DeleteRemote
    \/ NoRemoteFile
    \/ RemoveTemp
    \/ NoTempFile
    \/ StoreResult
    \/ CompleteProgress

Spec == Init /\ [][Next]_vars

\* _parse_json_response returns for every text, so that the program can step
\* from the parse statement whatever the response is; at every other
\* statement it can step when Next can.  Step is enabled exactly when Next is.
Step ==
    \/ /\ pc = "parse"
       /\ pc' = "pace"
       /\ UNCHANGED <<max_retries, pdf_files, session, progress, idx, locals,
                      temp_files, remote_files, events, extractor,
                   settings, outputs>>
    \/ /\ pc # "parse"
       /\ Next

\* The program is sequential and every call it makes returns or raises: a
\* step that can be taken is taken.
FairSpec == Spec /\ WF_vars(Step)

(***************************************************************************)
(* The extractor on its own: _parse_json_response called on a text that is *)
(* any text over Alphabet up to MaxLen characters, or one of Bodies put in *)
(* one of Fences.                                                          *)
(***************************************************************************)
Alphabet == {"{", "}", "[", "]", "\"", "1", "a", " ", "\n", Backtick}

Texts == UNION {[1..n -> Alphabet] : n \in 0..MaxLen}

Bodies ==
    { <<"{", "}">>,
      <<"{", "\"", "a", "\"", ":", "\"", "b", "\"", "}">>,
      <<"{", "\"", "a", "\"", ":", " ", "\"", "b", "\"", ",", " ",
        "\"", "c", "\"", ":", " ", "1", "2", "}">>,
      <<"{", "\"", "a", "\"", ":", "1", ",", "\"", "b", "\"", ":", "[", "]", ",",
        "\"", "a", "\"", ":", "n", "u", "l", "l", "}">>,
      <<"[", "1", ",", " ", "\"", "a", "\"", ",", "t", "r", "u", "e", "]">>,
      <<"-", "7">>,
      <<"\"", "a", " ", "b", "\"">>,
      <<"n", "u", "l", "l">>,
      <<>>,
      NotJson,
      <<"{", "\"", "a", "\"", ":">>,
      <<"{", "\"", "a", "\"", ":", "\"", "b", "\"", "}", "x">> }

\* How a body is wrapped: not at all, in a fenced block (the fence markers on
\* lines of their own), or between fence markers on one line; with a
\* language tag or none; with whitespace around the whole text (outer),
\* after the tag (tag_trail) and around the body inside the fence (inner).
Fence(kind, tag, outer, tag_trail, inner) ==
    [kind |-> kind, tag |-> tag, outer |-> outer, tag_trail |-> tag_trail,
     inner |-> inner]

NoFence == Fence("none", <<>>, <<>>, <<>>, <<>>)

Tags == {<<>>, JsonTag, <<"j", "s">>}

OuterSpace == {<<>>, <<" ", "\n">>}

InnerSpace == {<<>>, <<" ">>, <<"\n">>}

TagTrail == {<<>>, <<" ">>}

Fences ==
    {Fence("none", <<>>, o, <<>>, <<>>) : o \in OuterSpace}
    \cup {Fence("inline", t, o, <<>>, <<>>) : t \in Tags, o \in OuterSpace}
    \cup {Fence("block", t, o, tt, i) :
             t \in Tags, o \in OuterSpace, tt \in TagTrail, i \in InnerSpace}

Wrap(f, body) ==
    CASE f.kind = "none"   -> f.outer \o body \o f.outer
      [] f.kind = "inline" -> f.outer \o Ticks \o f.tag \o body \o Ticks \o f.outer
      [] f.kind = "block"  ->
            f.outer \o Ticks \o f.tag \o f.tag_trail \o <<"\n">> \o
            f.inner \o body \o f.inner \o <<"\n">> \o Ticks \o f.outer

Call(body, f) == [body |-> body, fence |-> f, response_text |-> Wrap(f, body)]

ExtractInit ==
    /\ max_retries = 0
    /\ pdf_files = <<>>
    /\ results = <<>>
    /\ filenames = <<>>
    /\ processing_status = <<>>
    /\ progress = <<>>
    /\ idx = 0
    /\ pc = "extract"
    /\ temp_file_path = None
    /\ uploaded_file = None
    /\ attempt = 0
    /\ last_exception = None
    /\ response_text = None
    /\ result_dict = None
    /\ returned = None
    /\ temp_files = {}
    /\ remote_files = {}
    /\ events = <<>>
    /\ ex_call \in {Call(t, NoFence) : t \in Texts}
                   \cup {Call(b, f) : b \in Bodies, f \in Fences}
    /\ ex_result = <<>>
    /\ api_key = SomeKey
    /\ columns = <<DocumentName, Summary>>
    /\ prompt_text = PromptX
    /\ new_column_input = <<>>
    /\ uploaded_template = None
    /\ template = None
    /\ formatted_results = None
    /\ full_prompt = None

\* _parse_json_response(response_text) returns.
ExtractCall ==
    /\ pc = "extract"
    /\ ex_result = <<>>
    /\ ex_result' = <<parse_json_response(ex_call.response_text)>>
    /\ UNCHANGED <<max_retries, pdf_files, session, progress, idx, pc, locals,
                   temp_files, remote_files, events, ex_call, settings,
                   outputs>>

ExtractNext == ExtractCall

ExtractSpec == ExtractInit /\ [][ExtractNext]_vars

(***************************************************************************)
(* format_results_for_export (excel_export.py), on the results a batch     *)
(* stored.                                                                 *)
(***************************************************************************)
\* result_dict.get(key, default)
DictGet(d, key, default) ==
    IF \E i \in 1..Len(d.v) : d.v[i].k = key
    THEN d.v[CHOOSE i \in 1..Len(d.v) : d.v[i].k = key].val
    ELSE default

RECURSIVE FormatRow(_, _, _)
\* Lines 146-149: the row after the columns of column_names were added to
\* it, in their order.
FormatRow(row, record, column_names) ==
    IF column_names = <<>> THEN row
    ELSE LET col_name == Head(column_names)
         IN  FormatRow(
                 IF col_name # DocumentName
                 THEN DictSet(row, col_name, DictGet(record, col_name, JStr(<<>>)))
                 ELSE row,
                 record, Tail(column_names))

\* Lines 144-149: {"Document Name": filename}, then the other columns.
FormattedRow(filename, record, column_names) ==
    JDict(FormatRow(<<Item(DocumentName, JStr(filename))>>, record, column_names))

Min(a, b) == IF a < b THEN a ELSE b

\* Lines 141-153: one row for each pair of zip(filenames, results).
format_results_for_export(rs, names, column_names) ==
    [k \in 1..Min(Len(names), Len(rs)) |-> FormattedRow(names[k], rs[k], column_names)]

ErrorKey == <<"E", "r", "r", "o", "r">>

\* The column lists of the export: the reserved name, then the user's.
ColumnLists ==
    { <<DocumentName>>,
      <<DocumentName, Summary>>,
      <<DocumentName, ErrorKey>>,
      <<DocumentName, Summary, ErrorKey>>,
      <<DocumentName, RawResponse, Summary>> }

\* What analyze_pdfs stores for a document: (result, status).  A success
\* stores a mapping the extractor returned: the requested key with a text,
\* with a number, with the reserved key beside it, no key at all, or the
\* raw response; a failure stores {"Error": error_msg}.
Stored(filename) ==
    { <<JDict(<<Item(Summary, JStr(<<"o", "k">>))>>), SuccessStatus>>,
      <<JDict(<<Item(Summary, JInt(5))>>), SuccessStatus>>,
      <<JDict(<<Item(DocumentName, JStr(<<"x">>)), Item(Summary, JStr(<<"o", "k">>))>>),
        SuccessStatus>>,
      <<JDict(<<>>), SuccessStatus>>,
      <<RawResponseDict(NotJson), SuccessStatus>>,
      <<ErrorDict(ErrorMsg(filename, UploadError)),
        FailureStatus(ErrorMsg(filename, UploadError))>> }

\* The session after a batch of n documents.
Sessions(n) ==
    { s \in [1..n -> UNION {Stored(FileName(k)) : k \in 1..n}] :
        \A k \in 1..n : s[k] \in Stored(FileName(k)) }

\* The Results tab is shown after a batch.
ExportInit ==
    /\ max_retries = 0
    /\ pdf_files \in {Batch(n) : n \in 0..MaxDocs}
    /\ \E s \in Sessions(Len(pdf_files)) :
          /\ results = [k \in 1..Len(pdf_files) |-> s[k][1]]
          /\ processing_status = [k \in 1..Len(pdf_files) |-> s[k][2]]
    /\ filenames = [k \in 1..Len(pdf_files) |-> pdf_files[k][2]]
    /\ progress = <<>>
    /\ idx = Len(pdf_files)
    /\ pc = "results"
    /\ temp_file_path = None
    /\ uploaded_file = None
    /\ attempt = 0
    /\ last_exception = None
    /\ response_text = None
    /\ result_dict = None
    /\ returned = None
    /\ temp_files = {}
    /\ remote_files = {}
    /\ events = <<>>
    /\ ex_call = NoCall
    /\ ex_result = <<>>
    /\ api_key = SomeKey
    /\ columns \in ColumnLists
    /\ prompt_text = PromptX
    /\ new_column_input = <<>>
    /\ uploaded_template = None
    /\ template = None
    /\ formatted_results = None
    /\ full_prompt = None

\* main, lines 394-400: with results in the session, the Results tab formats
\* them.
FormatResults ==
    /\ pc = "results"
    /\ results # <<>>
    /\ formatted_results' = format_results_for_export(results, filenames, columns)
    /\ pc' = "shown"
    /\ UNCHANGED <<max_retries, pdf_files, session, progress, idx, locals,
                   temp_files, remote_files, events, extractor, settings,
                   template, full_prompt>>

\* main, lines 449-450: without results there is nothing to format.
NoResults ==
    /\ pc = "results"
    /\ results = <<>>
    /\ pc' = "shown"
    /\ UNCHANGED <<max_retries, pdf_files, session, progress, idx, locals,
                   temp_files, remote_files, events, extractor, settings,
                   outputs>>

ExportNext == FormatResults \/ NoResults

ExportSpec == ExportInit /\ [][ExportNext]_vars

(***************************************************************************)
(* The column list, the prompt and the templates (app.py).  The texts of   *)
(* this part hold no character that json.dumps escapes.                    *)
(***************************************************************************)
\* get_default_prompt(): its first words stand for the whole text.
DefaultPrompt ==
    <<"A", "n", "a", "l", "y", "z", "e", " ", "t", "h", "i", "s", " ",
      "d", "o", "c", "u", "m", "e", "n", "t">>

PromptKey == <<"p", "r", "o", "m", "p", "t">>

ColumnsKey == <<"c", "o", "l", "u", "m", "n", "s">>

\* x in a list.
Contains(list, x) == \E i \in 1..Len(list) : list[i] = x

\* list.remove(x): the list without the first x.
Remove(list, x) ==
    LET i == CHOOSE j \in 1..Len(list) :
                 list[j] = x /\ \A h \in 1..(j - 1) : list[h] # x
    IN  SubSeq(list, 1, i - 1) \o SubSeq(list, i + 1, Len(list))

\* Lines 50-53: the columns after add_column, the input being new_col.
ColumnsAdded(cols, new_col) ==
    LET new_col_name == Strip(new_col)
    IN  IF new_col_name # <<>> /\ ~Contains(cols, new_col_name)
        THEN Append(cols, new_col_name) ELSE cols

\* Lines 58-59: the columns after remove_column(col_name).
ColumnsRemoved(cols, col_name) ==
    IF Contains(cols, col_name) /\ col_name # DocumentName
    THEN Remove(cols, col_name) ELSE cols

\* A Python value as a JSON value and back: texts are str, the rest is kept.
ToJson(x) == JStr(x)

FromJson(x) == IF x.t = "str" THEN x.v ELSE x

\* Lines 64-67: the template dict.
TemplateDict(prompt, cols) ==
    JDict(<<Item(PromptKey, ToJson(prompt)),
            Item(ColumnsKey,
                 JList([i \in 1..Len(SelectSeq(cols, LAMBDA c : c # DocumentName)) |->
                          ToJson(SelectSeq(cols, LAMBDA c : c # DocumentName)[i])]))>>)

\* n levels of json.dumps' indent of 2.
Indent(n) == [i \in 1..(2 * n) |-> " "]

RECURSIVE JsonDumps(_, _)
RECURSIVE DumpItems(_, _, _)
\* The items of a list or dict, each on its own line at that level.
DumpItems(items, is_dict, level) ==
    IF items = <<>> THEN <<>>
    ELSE LET first == Head(items)
         IN  <<"\n">> \o Indent(level) \o
             (IF is_dict
              THEN <<"\"">> \o first.k \o <<"\"", ":", " ">> \o JsonDumps(first.val, level)
              ELSE JsonDumps(first, level)) \o
             (IF Len(items) > 1 THEN <<",">> ELSE <<>>) \o
             DumpItems(Tail(items), is_dict, level)

\* json.dumps(x, indent=2), x being at that level of nesting.
JsonDumps(x, level) ==
    IF x.t = "str" THEN <<"\"">> \o x.v \o <<"\"">>
    ELSE IF x.t = "int" THEN IntText(x.v[1])
    ELSE IF x.t = "list"
        THEN IF x.v = <<>> THEN <<"[", "]">>
             ELSE <<"[">> \o DumpItems(x.v, FALSE, level + 1) \o
                  <<"\n">> \o Indent(level) \o <<"]">>
    ELSE IF x.t = "dict"
        THEN IF x.v = <<>> THEN <<"{", "}">>
             ELSE <<"{">> \o DumpItems(x.v, TRUE, level + 1) \o
                  <<"\n">> \o Indent(level) \o <<"}">>
    ELSE <<"n", "u", "l", "l">>

\* Lines 64-69: template_json.
TemplateJson(prompt, cols) == JsonDumps(TemplateDict(prompt, cols), 0)

\* What a user may type as a new column: nothing, a name between spaces,
\* a plain name, the reserved name.
ColumnInputs == {<<>>, <<" ", "A", " ">>, <<"B">>, DocumentName}

\* The prompts a user may leave in the prompt editor.
Prompts == {DefaultPrompt, PromptX}

ObjectFile(items) == JsonDumps(JDict(items), 0)

TextList(names) == JList([i \in 1..Len(names) |-> JStr(names[i])])

\* Template files written by hand: the two-column template, one without a
\* prompt that names a column twice, one that names the reserved column,
\* one without columns, one whose columns are a text, and a file that is not
\* JSON.
TemplateFiles ==
    { ObjectFile(<<Item(PromptKey, JStr(PromptX)),
                   Item(ColumnsKey, TextList(<<<<"A">>, <<"B">>>>))>>),
      ObjectFile(<<Item(ColumnsKey, TextList(<<<<"A">>, <<"A">>>>))>>),
      ObjectFile(<<Item(PromptKey, JStr(PromptX)),
                   Item(ColumnsKey, TextList(<<DocumentName, <<"A">>>>))>>),
      ObjectFile(<<Item(PromptKey, JStr(PromptX))>>),
      ObjectFile(<<Item(PromptKey, JStr(PromptX)), Item(ColumnsKey, JStr(<<"A">>))>>),
      NotJson }

\* Lines 81-90: (prompt_text, columns) after load_template(file).  A file
\* that is not a JSON object raises before anything is assigned; columns
\* that are not a list raise in line 86, after the prompt was assigned; the
\* except clause reports either and goes on.
LoadedTemplate(file, prompt, cols) ==
    LET loaded == JsonLoads(file)
    IN  IF ~loaded.ok \/ loaded.val.t # "dict" THEN <<prompt, cols>>
        ELSE LET new_prompt     == FromJson(DictGet(loaded.val, PromptKey, JStr(DefaultPrompt)))
                 loaded_columns == DictGet(loaded.val, ColumnsKey, JList(<<>>))
             IN  IF loaded_columns.t # "list" THEN <<new_prompt, cols>>
                 ELSE <<new_prompt,
                        <<DocumentName>> \o
                        [i \in 1..Len(loaded_columns.v) |-> FromJson(loaded_columns.v[i])]>>

\* initialize_session_state, lines 30-45, in a session that has run no batch.
ConfigInit ==
    /\ max_retries = 0
    /\ pdf_files = <<>>
    /\ results = <<>>
    /\ filenames = <<>>
    /\ processing_status = <<>>
    /\ progress = <<>>
    /\ idx = 0
    /\ pc = "configure"
    /\ temp_file_path = None
    /\ uploaded_file = None
    /\ attempt = 0
    /\ last_exception = None
    /\ response_text = None
    /\ result_dict = None
    /\ returned = None
    /\ temp_files = {}
    /\ remote_files = {}
    /\ events = <<>>
    /\ ex_call = NoCall
    /\ ex_result = <<>>
    /\ api_key = SomeKey
    /\ columns = <<DocumentName>>
    /\ prompt_text = DefaultPrompt
    /\ new_column_input = <<>>
    /\ uploaded_template = None
    /\ template = None
    /\ formatted_results = None
    /\ full_prompt = None

\* The user types a name and clicks "Add Column": add_column, lines 48-53.
AddColumn ==
    /\ pc = "configure"
    /\ \E input \in ColumnInputs :
          /\ columns' = ColumnsAdded(columns, input)
          /\ new_column_input' = IF columns' # columns THEN <<>> ELSE input
    /\ UNCHANGED <<max_retries, pdf_files, session, progress, idx, pc, locals,
                   temp_files, remote_files, events, extractor, api_key,
                   prompt_text, uploaded_template, outputs>>

\* The user clicks the remove button of a column: remove_column, lines 56-59.
RemoveColumn ==
    /\ pc = "configure"
    /\ \E i \in 1..Len(columns) :
          /\ columns[i] # DocumentName
          /\ columns' = ColumnsRemoved(columns, columns[i])
    /\ UNCHANGED <<max_retries, pdf_files, session, progress, idx, pc, locals,
                   temp_files, remote_files, events, extractor, api_key,
                   prompt_text, new_column_input, uploaded_template, outputs>>

\* main, lines 297-306: the prompt editor.
EditPrompt ==
    /\ pc = "configure"
    /\ prompt_text' \in Prompts
    /\ UNCHANGED <<max_retries, pdf_files, session, progress, idx, pc, locals,
                   temp_files, remote_files, events, extractor, api_key,
                   columns, new_column_input, uploaded_template, outputs>>

\* save_template, lines 62-76.
SaveTemplate ==
    /\ pc = "configure"
    /\ template' = TemplateJson(prompt_text, columns)
    /\ UNCHANGED <<max_retries, pdf_files, session, progress, idx, pc, locals,
                   temp_files, remote_files, events, extractor, settings,
                   formatted_results, full_prompt>>

\* main, lines 244-250, and load_template, lines 79-90: the user uploads a
\* template file, one written by hand or the one saved last.
LoadTemplate ==
    /\ pc = "configure"
    /\ \E file \in TemplateFiles \cup ({template} \ {None}) :
          /\ uploaded_template' = file
          /\ prompt_text' = LoadedTemplate(file, prompt_text, columns)[1]
          /\ columns' = LoadedTemplate(file, prompt_text, columns)[2]
    /\ UNCHANGED <<max_retries, pdf_files, session, progress, idx, pc, locals,
                   temp_files, remote_files, events, extractor, api_key,
                   new_column_input, outputs>>

ConfigNext ==
    \/ AddColumn
    \/ RemoveColumn
    \/ EditPrompt
    \/ SaveTemplate
    \/ LoadTemplate

ConfigSpec == ConfigInit /\ [][ConfigNext]_vars

\* ---------------------------------------------------------------------
\* The prompt builder, called on the column lists a user can configure
\* ---------------------------------------------------------------------

\* The names a user may give to columns; add_column (app.py, line 51)
\* compares names exactly, so "document name" is a name like any other.
FieldNames == {<<"A">>, <<"B">>, Summary, DocumentNameLower}

\* The lists of n distinct added names.
RECURSIVE AddedColumns(_)
AddedColumns(n) ==
    IF n = 0 THEN {<<>>}
    ELSE UNION {{Append(cols, name) : name \in {f \in FieldNames : ~Contains(cols, f)}}
                : cols \in AddedColumns(n - 1)}

\* The column lists with which app.py (lines 363-385) calls analyze_pdfs: the
\* document name first, then at least one added column.
FieldSpecs ==
    {<<DocumentName>> \o cols : cols \in UNION {AddedColumns(n) : n \in 1..MaxColumns}}

PromptInit ==
    /\ max_retries = 0
    /\ pdf_files = <<>>
    /\ results = <<>>
    /\ filenames = <<>>
    /\ processing_status = <<>>
    /\ progress = <<>>
    /\ idx = 0
    /\ pc = "compile"
    /\ temp_file_path = None
    /\ uploaded_file = None
    /\ attempt = 0
    /\ last_exception = None
    /\ response_text = None
    /\ result_dict = None
    /\ returned = None
    /\ temp_files = {}
    /\ remote_files = {}
    /\ events = <<>>
    /\ ex_call = NoCall
    /\ ex_result = <<>>
    /\ api_key = SomeKey
    /\ columns \in FieldSpecs
    /\ prompt_text \in Prompts
    /\ new_column_input = <<>>
    /\ uploaded_template = None
    /\ template = None
    /\ formatted_results = None
    /\ full_prompt = None

\* analyze_pdfs, line 141.
CompilePrompt ==
    /\ pc = "compile"
    /\ full_prompt' = build_analysis_prompt(prompt_text, columns)
    /\ pc' = "compiled"
    /\ UNCHANGED <<max_retries, pdf_files, session, progress, idx, locals,
                   temp_files, remote_files, events, extractor, settings,
                   template, formatted_results>>

PromptNext == CompilePrompt

PromptSpec == PromptInit /\ [][PromptNext]_vars

\* ---------------------------------------------------------------------
\* The start of the application: the credential check of main
\* ---------------------------------------------------------------------

\* What os.environ.get("GEMINI_API_KEY") may give (gemini_client.py, line
\* 222): nothing, an empty text, a key.
ApiKeys == {Unset, <<>>, SomeKey}

\* validate_api_key that accepts every key the environment defines, the
\* empty one too.
validate_api_key_defined(key) ==
    IF key = Unset THEN <<FALSE, Unset>> ELSE <<TRUE, key>>

\* validate_api_key, lines 215-227, on the value read from the environment.
validate_api_key(key) ==
    IF key = Unset \/ key = <<>> THEN <<FALSE, Unset>> ELSE <<TRUE, key>>

\* The session when main starts, before the credential check.
AppInit ==
    /\ max_retries \in 0..MaxRetries
    /\ pdf_files \in {Batch(n) : n \in 0..MaxDocs}
    /\ results = <<>>
    /\ filenames = <<>>
    /\ processing_status = <<>>
    /\ progress = <<>>
    /\ idx = 0
    /\ pc = "main"
    /\ temp_file_path = None
    /\ uploaded_file = None
    /\ attempt = 0
    /\ last_exception = None
    /\ response_text = None
    /\ result_dict = None
    /\ returned = None
    /\ temp_files = {}
    /\ remote_files = {}
    /\ events = <<>>
    /\ ex_call = NoCall
    /\ ex_result = <<>>
    /\ api_key \in ApiKeys
    /\ columns = <<DocumentName, Summary>>
    /\ prompt_text = PromptX
    /\ new_column_input = <<>>
    /\ uploaded_template = None
    /\ template = None
    /\ formatted_results = None
    /\ full_prompt = None

\* main, lines 199-201: the key is there, the page is built and the analysis
\* can be started.
ApiKeyFound ==
    /\ pc = "main"
    /\ validate_api_key(api_key)[1]
    /\ pc' = "ready"
    /\ UNCHANGED <<max_retries, pdf_files, session, progress, idx, locals,
                   temp_files, remote_files, events, extractor, settings, outputs>>

\* main, lines 202-205: no key, st.stop() ends the run of the script.
ApiKeyMissing ==
    /\ pc = "main"
    /\ ~validate_api_key(api_key)[1]
    /\ pc' = "stopped"
    /\ UNCHANGED <<max_retries, pdf_files, session, progress, idx, locals,
                   temp_files, remote_files, events, extractor, settings, outputs>>

AppNext ==
    \/ ApiKeyFound
    \/ ApiKeyMissing
    \/ Next

AppSpec == AppInit /\ [][AppNext]_vars

\* ---------------------------------------------------------------------
\* A batch started in a session that holds the results of an earlier one
\* ---------------------------------------------------------------------

\* The name of a document of the earlier batch.
EarlierFilename == "earlier.pdf"

\* What the earlier batch left in the session (app.py, lines 169-180), as
\* <<results, filenames, processing_status>>: one failed document, or more
\* successful documents than any batch that follows has.
EarlierRuns ==
    { << <<ErrorDict(ErrorMsg(EarlierFilename, UploadError))>>,
         <<EarlierFilename>>,
         <<FailureStatus(ErrorMsg(EarlierFilename, UploadError))>> >>,
      << [k \in 1..(MaxDocs + 1) |-> RawResponseDict(NotJson)],
         [k \in 1..(MaxDocs + 1) |-> EarlierFilename],
         [k \in 1..(MaxDocs + 1) |-> SuccessStatus] >> }

\* The session before "Start Analysis" is clicked again (app.py, lines
\* 369-385), with one retry configured.
RerunInit ==
    /\ max_retries = 1
    /\ pdf_files \in {Batch(n) : n \in 0..MaxDocs}
    /\ \E earlier \in EarlierRuns :
          /\ results = earlier[1]
          /\ filenames = earlier[2]
          /\ processing_status = earlier[3]
    /\ progress = <<>>
    /\ idx = 0
    /\ pc = "ready"
    /\ temp_file_path = None
    /\ uploaded_file = None
    /\ attempt = 0
    /\ last_exception = None
    /\ response_text = None
    /\ result_dict = None
    /\ returned = None
    /\ temp_files = {}
    /\ remote_files = {}
    /\ events = <<>>
    /\ ex_call = NoCall
    /\ ex_result = <<>>
    /\ api_key = SomeKey
    /\ columns = <<DocumentName, Summary>>
    /\ prompt_text = PromptX
    /\ new_column_input = <<>>
    /\ uploaded_template = None
    /\ template = None
    /\ formatted_results = None
    /\ full_prompt = None

RerunSpec == RerunInit /\ [][Next]_vars

(***************************************************************************)
(* Properties of the extractor, under ExtractSpec.                         *)
(***************************************************************************)
Extracted == ex_result # <<>>

\* The text json.loads is given, and what it makes of it.
Loaded == JsonLoads(CleanedText(ex_call.response_text))

FencedBlock == ex_call.fence.kind = "block" /\ ex_call.fence.tag \in {<<>>, JsonTag}

\* The body is the text of a JSON object.
ObjectBody == JsonLoads(ex_call.body).ok /\ JsonLoads(ex_call.body).val.t = "dict"

\* C9: a valid JSON object text put in a fenced block, tagged json or not
\* tagged, with or without whitespace around the block, after the tag and
\* around the text, is extracted to the mapping the text alone is extracted
\* to, which is the object the text denotes.
C9_FenceTolerant ==
    (Extracted /\ FencedBlock /\ ObjectBody) =>
        /\ ex_result[1] = parse_json_response(ex_call.body)
        /\ ex_result[1] = JsonLoads(ex_call.body).val

\* C9's case: {"a":"b"} in an untagged block with whitespace around it.
C9_Witness ==
    /\ Extracted
    /\ FencedBlock
    /\ ex_call.fence.tag = <<>>
    /\ ex_call.fence.outer # <<>>
    /\ ex_call.body = <<"{", "\"", "a", "\"", ":", "\"", "b", "\"", "}">>
    /\ ex_result[1] = JDict(<<Item(<<"a">>, JStr(<<"b">>))>>)

\* [1, "a",true], and str() of the list it denotes: [1, 'a', True]
ListBody == <<"[", "1", ",", " ", "\"", "a", "\"", ",", "t", "r", "u", "e", "]">>

ListStr == <<"[", "1", ",", " ", "'", "a", "'", ",", " ", "T", "r", "u", "e", "]">>

Occurred(ev) == \E i \in 1..Len(events) : events[i] = ev

Failed(ev) == ev[2] # <<"ok">>

\* The generation attempts of the current call, and the attempts together
\* with the backoff sleeps.
Attempts == EventsOf("generate")

Retrying == SelectSeq(events, LAMBDA ev : ev[1] \in {"generate", "backoff"})

AllAttemptsFailed ==
    Attempts # <<>> /\ \A i \in 1..Len(Attempts) : Failed(Attempts[i])

\* analyze_pdf is in its finally block or has just returned.
Leaving == pc \in {"delete_remote", "remove_temp", "return"}

\* The temp file was written: the call is on one of the four paths that end
\* in success, upload failure, generation failure or format failure.
Staged == Occurred(Event("write_temp", "ok"))

Uploaded == Occurred(Event("upload", "ok"))

\* C1, as claimed: when analyze_pdf returns on one of the four paths, the
\* temp file and the remote file were each released exactly once and
\* neither is left.
C1_ReleasedExactlyOnce ==
    (pc = "return" /\ Staged) =>
        /\ Len(EventsOf("remove_temp")) = 1
        /\ Len(EventsOf("delete_remote")) = 1
        /\ TempPath \notin temp_files
        /\ RemoteFile \notin remote_files

\* C1, as amended: when analyze_pdf returns on one of the four paths, it has
\* tried to remove the temp file exactly once, and to delete the remote file
\* exactly once if the upload returned one and never otherwise; the temp
\* file or the remote file is left only if that one attempt failed.
C1_ReleaseAttemptedOnce ==
    (pc = "return" /\ Staged) =>
        /\ Len(EventsOf("remove_temp")) = 1
        /\ Len(EventsOf("delete_remote")) = (IF Uploaded THEN 1 ELSE 0)
        /\ TempPath \in temp_files => Occurred(Event("remove_temp", "raised"))
        /\ RemoteFile \in remote_files => Occurred(Event("delete_remote", "raised"))

\* C1's case: the format failure path, both deletions done, nothing left.
C1_Witness ==
    /\ pc = "return"
    /\ Staged
    /\ returned[3] = ErrorMsg(CurrentFilename, FormatError)
    /\ Occurred(Event("delete_remote", "ok"))
    /\ Occurred(Event("remove_temp", "ok"))
    /\ TempPath \notin temp_files
    /\ RemoteFile \notin remote_files

IsFailure(status) == status[1] = "cross mark"

\* What is recorded, at any moment of the batch: the three
\* lists grow by one entry per processed document, so that at the end they
\* hold one entry per input document; the k-th filename is the k-th
\* document's, a failure's reason names the k-th document, and the entry
\* stored last is what analyze_pdf returned for that document.
C2_Recorded ==
    /\ idx <= Len(pdf_files)
    /\ pc = "done" => idx = Len(pdf_files)
    /\ pc # "ready" =>
          /\ Len(results) = idx
          /\ Len(filenames) = idx
          /\ Len(processing_status) = idx
    /\ \A k \in 1..Len(filenames) :
          /\ filenames[k] = pdf_files[k][2]
          /\ IsFailure(processing_status[k]) =>
                /\ processing_status[k][2][2] = pdf_files[k][2]
                /\ results[k] = ErrorDict(processing_status[k][2])
          /\ ~IsFailure(processing_status[k]) =>
                /\ processing_status[k] = SuccessStatus
                /\ results[k].t = "dict"
    /\ (pc \in {"loop", "done"} /\ idx > 0) =>
          IF returned[1]
          THEN /\ results[idx] = returned[2]
               /\ processing_status[idx] = SuccessStatus
          ELSE /\ results[idx] = ErrorDict(returned[3])
               /\ processing_status[idx] = FailureStatus(returned[3])

\* C2: for every batch and every pattern of successes and failures,
\* analyze_pdfs runs to the end, and at every moment the lists hold one
\* outcome per processed document, in input order: a failure neither stops
\* the batch nor skips a document.
C2_OneOutcomePerDocument == <>(pc = "done") /\ []C2_Recorded

\* C2's case: a batch of two is done, the first document failed and the
\* second succeeded.
C2_Witness ==
    /\ pc = "done"
    /\ Len(pdf_files) = 2
    /\ Len(results) = 2
    /\ IsFailure(processing_status[1])
    /\ processing_status[2] = SuccessStatus

C4_LastFailureSurfaced ==
    /\ Len(Attempts) <= max_retries + 1
    /\ (Leaving /\ AllAttemptsFailed) =>
          /\ Len(Attempts) = max_retries + 1
          /\ returned = <<FALSE, JDict(<<>>),
                          ErrorMsg(CurrentFilename, Attempts[Len(Attempts)][2])>>

\* C4's case: three failed attempts, the last with another cause than the
\* first.
C4_Witness ==
    /\ pc = "return"
    /\ max_retries = 2
    /\ AllAttemptsFailed
    /\ Len(Attempts) = 3
    /\ Attempts[1][2] # Attempts[3][2]
    /\ returned[3] = ErrorMsg(CurrentFilename, Attempts[3][2])

\* C5: once the upload has failed there is one upload call and no attempt,
\* no backoff sleep and no pacing sleep in the call, and it returns the
\* failure "Error analyzing <name>: <cause>" with the upload's cause.
C5_UploadFailureTerminal ==
    Occurred(Event("upload", "raised")) =>
        /\ Len(EventsOf("upload")) = 1
        /\ Attempts = <<>>
        /\ EventsOf("backoff") = <<>>
        /\ EventsOf("pace") = <<>>
        /\ pc \notin {"generate", "backoff", "parse", "pace"}
        /\ Leaving =>
              returned = <<FALSE, JDict(<<>>), ErrorMsg(CurrentFilename, UploadError)>>

\* C5's case: the call returns after a failed upload.
C5_Witness ==
    /\ pc = "return"
    /\ Occurred(Event("upload", "raised"))
    /\ ~returned[1]

\* C6: no step of the cleanup changes what analyze_pdf returns, and each
\* goes on to the next step and to the return, whether the deletion failed
\* or not; the call returns a success exactly when it got as far as the
\* pacing sleep.
C6_CleanupKeepsOutcome ==
    /\ [][(pc = "delete_remote" \/ pc = "remove_temp") =>
            (returned' = returned /\ pc' \in {"remove_temp", "return"})]_vars
    /\ [](pc = "return" =>
            (returned # None /\ returned[1] = (EventsOf("pace") # <<>>)))

\* C6's case: a success is returned although both deletions failed.
C6_Witness ==
    /\ pc = "return"
    /\ returned[1]
    /\ returned[2] = parse_json_response(response_text)
    /\ Occurred(Event("delete_remote", "raised"))
    /\ Occurred(Event("remove_temp", "raised"))

\* C7: a call sleeps the pacing delay at most once; when it returns it has
\* slept it exactly once if it returns a success and not at all if it
\* returns a failure.
C7_PacingOnlyOnSuccess ==
    /\ Len(EventsOf("pace")) <= 1
    /\ pc = "return" =>
          Len(EventsOf("pace")) = (IF returned[1] THEN 1 ELSE 0)

\* C7's case: a success after one retry: one backoff sleep, one pacing sleep.
C7_Witness ==
    /\ pc = "return"
    /\ returned[1]
    /\ EventsOf("backoff") = <<Event("backoff", 2)>>
    /\ EventsOf("pace") = <<Event("pace", DefaultApiDelay)>>

\* The attempts of the current call are two failures and then a success
\* that returned the text "not json".
FailedTwiceThenNotJson ==
    /\ Len(Attempts) = 3
    /\ Failed(Attempts[1])
    /\ Failed(Attempts[2])
    /\ ~Failed(Attempts[3])
    /\ response_text = NotJson

\* C11, as claimed: with retry bound 2, the call of a document whose upload
\* failed returns Success({"Raw Response": "not json"}): the upload is tried
\* again and the generation that follows returns the text "not json".
C11_UploadRetried ==
    (max_retries = 2 /\ pc = "return" /\ Occurred(Event("upload", "raised"))) =>
        returned = <<TRUE, RawResponseDict(NotJson), None>>

\* C11, as amended: with retry bound 2, when the generation call fails
\* twice and then succeeds returning the text "not json", the call returns
\* Success({"Raw Response": "not json"}); when the upload call fails, the
\* call returns a Failure and the upload is not tried again.
C11_GenerationRetried ==
    /\ (max_retries = 2 /\ Leaving /\ FailedTwiceThenNotJson) =>
          returned = <<TRUE, RawResponseDict(NotJson), None>>
    /\ (max_retries = 2 /\ Leaving /\ Occurred(Event("upload", "raised"))) =>
          /\ ~returned[1]
          /\ Len(EventsOf("upload")) = 1

\* C11's case: two failed attempts, the third returns "not json", and the
\* call returns.
C11_Witness ==
    /\ max_retries = 2
    /\ pc = "return"
    /\ FailedTwiceThenNotJson
    /\ returned[1]
    /\ returned[2] = RawResponseDict(NotJson)

\* Progress values are fractions <<numerator, denominator>>.
FracLess(x, y) == x[1] * y[2] < y[1] * x[2]

FracEq(x, y) == x[1] * y[2] = y[1] * x[2]

One == <<1, 1>>

\* The batch has started: the progress bar exists.
Started == pc # "ready"

\* C12, as claimed: the values shown are completedCount/n before each
\* document and 1.0 after the last and no other; they increase; 1.0 is
\* shown only when every document has an outcome; a batch of no document
\* shows 1.0 only.
C12_OnlyDocumentFractions ==
    LET n == Len(pdf_files)
    IN  Started =>
          /\ \A j \in 1..Len(progress) :
                IF j <= n
                THEN /\ FracEq(progress[j], <<j - 1, n>>)
                     /\ Len(results) >= j - 1
                ELSE /\ j = n + 1
                     /\ FracEq(progress[j], One)
                     /\ Len(results) = n
          /\ \A j \in 1..(Len(progress) - 1) : FracLess(progress[j], progress[j + 1])
          /\ (pc = "done" /\ n = 0) => progress = <<One>>

\* C12, as amended: the progress bar is created showing 0; then the value
\* shown right before document k is started is (k-1)/n, k-1 being the
\* number of documents that have an outcome, and 1.0 is shown after the
\* last one, only when every document has an outcome; the values never
\* decrease, increase from the second one on and never exceed 1.0; a batch
\* of no document shows 0 and then 1.0.
C12_ProgressFractions ==
    LET n == Len(pdf_files)
        m == Len(progress)
    IN  Started =>
          /\ m >= 1
          /\ FracEq(progress[1], <<0, 1>>)
          /\ \A j \in 2..m :
                IF j <= n + 1
                THEN /\ progress[j] = <<j - 2, n>>
                     /\ Len(results) >= j - 2
                ELSE /\ j = n + 2
                     /\ progress[j] = One
                     /\ Len(results) = n
                     /\ pc = "done"
          /\ \A j \in 1..(m - 1) : ~FracLess(progress[j + 1], progress[j])
          /\ \A j \in 2..(m - 1) : FracLess(progress[j], progress[j + 1])
          /\ \A j \in 1..m : ~FracLess(One, progress[j])
          /\ pc = "write_temp" => (m = idx + 2 /\ Len(results) = idx)
          /\ pc = "done" => (m = n + 2 /\ progress[m] = One)

\* C12's case: a batch of two is done: 0, 0/2, 1/2 and 1.0 were shown.
C12_Witness ==
    /\ pc = "done"
    /\ progress = <<<<0, 1>>, <<0, 2>>, <<1, 2>>, <<1, 1>>>>

(***************************************************************************)
(* Properties of the export records, under ExportSpec.                     *)
(***************************************************************************)
Formatted == pc = "shown" /\ results # <<>>

\* The declared columns other than the reserved one.
DeclaredFields == {columns[i] : i \in 1..Len(columns)} \ {DocumentName}

\* row[key]; None when the row has no such key.
Field(row, key) == DictGet(row, key, JNull)

\* C13: in the export record of a document whose outcome is a failure,
\* every declared column but the reserved one holds the empty string,
\* whatever the declared columns are.
C13_FailureFieldsEmpty ==
    Formatted =>
        \A k \in 1..Len(formatted_results) :
            IsFailure(processing_status[k]) =>
                \A col \in DeclaredFields :
                    Field(formatted_results[k], col) = JStr(<<>>)

\* C14: there is one export record per document, in input order; its keys
\* are the declared columns; the reserved column holds the document's
\* filename; every other declared column of a success holds the record's
\* value for that key, or the empty string when the record has no such key;
\* every value is a string.
C14_ExportRecords ==
    Formatted =>
        /\ Len(formatted_results) = Len(filenames)
        /\ \A k \in 1..Len(formatted_results) :
              LET row == formatted_results[k]
              IN  /\ DictKeys(row) = {columns[i] : i \in 1..Len(columns)}
                  /\ Field(row, DocumentName).v = filenames[k]
                  /\ ~IsFailure(processing_status[k]) =>
                        \A col \in DeclaredFields :
                            Field(row, col) = DictGet(results[k], col, JStr(<<>>))
                  /\ \A i \in 1..Len(row.v) : row.v[i].val.t = "str"


(***************************************************************************)
(* Properties of the column list and the templates, under ConfigSpec       *)
(***************************************************************************)

NoDuplicates(list) ==
    \A i, j \in 1..Len(list) : list[i] = list[j] => i = j

\* C15: after any sequence of add_column, remove_column and load_template
\* from the initial session state, the column list names no column twice
\* and "Document Name" is present and is its first element.
C15_FieldSpec ==
    /\ NoDuplicates(columns)
    /\ Len(columns) >= 1
    /\ columns[1] = DocumentName

\* A file holding a template object: a JSON object with a text under
\* "prompt" and a list of texts under "columns".
IsTemplateObject(file) ==
    LET loaded == JsonLoads(file)
    IN  /\ loaded.ok
        /\ loaded.val.t = "dict"
        /\ DictGet(loaded.val, PromptKey, JNull).t = "str"
        /\ DictGet(loaded.val, ColumnsKey, JNull).t = "list"
        /\ \A i \in 1..Len(DictGet(loaded.val, ColumnsKey, JNull).v) :
              DictGet(loaded.val, ColumnsKey, JNull).v[i].t = "str"

\* Two template files hold the same prompt and the same columns in the same
\* order.
SameTemplate(file_a, file_b) ==
    /\ DictGet(JsonLoads(file_a).val, PromptKey, JNull)
         = DictGet(JsonLoads(file_b).val, PromptKey, JNull)
    /\ DictGet(JsonLoads(file_a).val, ColumnsKey, JNull)
         = DictGet(JsonLoads(file_b).val, ColumnsKey, JNull)

\* C16: the template saved right after a template object was loaded holds
\* the prompt and the columns of the loaded one, in the same order; and
\* loading the template just saved leaves the prompt and the column list as
\* they were when it was saved.
C16_RoundTrip ==
    [][ /\ (LoadTemplate /\ IsTemplateObject(uploaded_template'))
              => SameTemplate(TemplateJson(prompt_text', columns'), uploaded_template')
        /\ SaveTemplate
              => LoadedTemplate(template', prompt_text', columns') = <<prompt_text', columns'>>
      ]_vars


(***************************************************************************)
(* Properties of the compiled prompt, under PromptSpec                     *)
(***************************************************************************)

\* The text of the compiled prompt between the instruction that introduces
\* the keys and the instruction that follows them; empty when the prompt
\* carries no such instruction.
RequestedKeys ==
    LET from == Len(prompt_text) + Len(InstructionHead)
        upto == Len(full_prompt) - Len(InstructionTail)
    IN  IF /\ upto >= from
           /\ SubSeq(full_prompt, 1, from) = prompt_text \o InstructionHead
           /\ SubSeq(full_prompt, upto + 1, Len(full_prompt)) = InstructionTail
        THEN SubSeq(full_prompt, from + 1, upto)
        ELSE <<>>

Quoted(name) == <<"\"">> \o name \o <<"\"">>

RECURSIVE QuotedInOrder(_)
QuotedInOrder(names) ==
    IF names = <<>> THEN <<>>
    ELSE IF Len(names) = 1 THEN Quoted(Head(names))
    ELSE Quoted(Head(names)) \o <<",", " ">> \o QuotedInOrder(Tail(names))

\* C17: for a column list with the document name first and at least one
\* other column, the compiled prompt requests every other column by its
\* exact name, in the declared order, and does not request the document
\* name.
C17_PromptRequestsFields ==
    pc = "compiled" =>
        /\ RequestedKeys = QuotedInOrder(Tail(columns))
        /\ \A i \in 1..Len(RequestedKeys) :
              ~StartsWithAt(RequestedKeys, Quoted(DocumentName), i)


(***************************************************************************)
(* Properties of the batch's resources, under Spec                         *)
(***************************************************************************)

\* analyze_pdfs is between two calls of analyze_pdf, or outside the loop.
BetweenDocuments == pc = "ready" \/ pc = "loop" \/ pc = "done"

\* C18: at every point of a batch the temp files and the remote files that
\* exist are those of the document being analyzed, and none exists between
\* two documents: the next document is staged only after the temp file and
\* the remote file of the one before were released.
C18_OneDocumentAlive ==
    /\ BetweenDocuments => temp_files = {} /\ remote_files = {}
    /\ ~BetweenDocuments => temp_files \subseteq {TempPath} /\ remote_files \subseteq {RemoteFile}


(***************************************************************************)
(* Properties of the credential check, under AppSpec                       *)
(***************************************************************************)

NoCredential == api_key = Unset \/ api_key = <<>>

\* C19: when GEMINI_API_KEY is absent or empty no batch ever starts: the
\* application stays before the credential check or stopped at it, nothing
\* is staged, uploaded, generated or deleted, and nothing is recorded.
C19_NoBatchWithoutCredential ==
    NoCredential =>
        /\ pc = "main" \/ pc = "stopped"
        /\ events = <<>>
        /\ temp_files = {}
        /\ remote_files = {}
        /\ results = <<>> /\ filenames = <<>> /\ processing_status = <<>>
        /\ progress = <<>>
        /\ full_prompt = None

\* C19's case: the key is empty and the application has stopped at the check.
C19_Witness ==
    /\ api_key = <<>>
    /\ pc = "stopped"
    /\ pdf_files # <<>>


(***************************************************************************)
(* Properties of the unexpected response format, under Spec                *)
(***************************************************************************)

FormatFailure == Event("generate", FormatError)

\* C20: an attempt whose response has neither a text nor parts is one of the
\* at most max_retries + 1 attempts; if it is attempt i < max_retries, the
\* sleep of (i+1)*2 and then a new attempt follow it; the call fails with
\* the unexpected-format reason exactly when the attempt max_retries ended
\* this way.
C20_FormatFailureRetried ==
    LET r == Retrying
        n == Len(r)
    IN  /\ \A j \in 1..n :
              r[j] = FormatFailure =>
                  LET i == (j - 1) \div 2
                  IN  /\ j % 2 = 1
                      /\ i <= max_retries
                      /\ i < max_retries =>
                            /\ j = n => pc = "backoff"
                            /\ j < n => r[j + 1] = Event("backoff", (i + 1) * 2)
                            /\ j + 1 = n => pc = "generate"
                            /\ j + 1 < n => r[j + 2][1] = "generate"
                      /\ i = max_retries =>
                            /\ j = n
                            /\ pc # "generate" /\ pc # "backoff"
                            /\ Leaving =>
                                  returned = <<FALSE, JDict(<<>>),
                                               ErrorMsg(CurrentFilename, FormatError)>>
        /\ (Leaving /\ returned # None /\ returned[3] = ErrorMsg(CurrentFilename, FormatError)) =>
              /\ Len(Attempts) = max_retries + 1
              /\ r[n] = FormatFailure

\* C20's case: with max_retries = 2 the first attempt met the unexpected
\* format, was followed by the sleep of 2 and a new attempt, and the call
\* succeeded in the end.
C20_Witness ==
    /\ pc = "return"
    /\ max_retries = 2
    /\ Len(Retrying) >= 3
    /\ Retrying[1] = FormatFailure
    /\ Retrying[2] = Event("backoff", 2)
    /\ Retrying[3][1] = "generate"
    /\ returned[1]


(***************************************************************************)
(* Properties of the order of the steps of analyze_pdf, under Spec         *)
(***************************************************************************)

\* The call is at the pacing sleep or has slept and deleted nothing yet.
Pacing ==
    \/ pc = "pace"
    \/ pc = "delete_remote" /\ Occurred(Event("pace", DefaultApiDelay))

\* C21: a call that returns a success ended with these steps in this order:
\* successful generation, extraction of the response, pacing sleep, deletion
\* of the remote file, removal of the temp file; the remote file and the
\* temp file exist during the whole pacing sleep; and on every path a
\* removal of the temp file comes after the deletion of the remote file,
\* which was attempted if there was an upload.
C21_SuccessOrder ==
    LET n == Len(events)
    IN  /\ (pc = "return" /\ returned[1]) =>
              /\ n >= 5
              /\ events[n - 4] = Event("generate", <<"ok">>)
              /\ events[n - 3] = Event("parse", "ok")
              /\ events[n - 2] = Event("pace", DefaultApiDelay)
              /\ events[n - 1][1] = "delete_remote"
              /\ events[n][1] = "remove_temp"
        /\ Pacing =>
              /\ TempPath \in temp_files
              /\ RemoteFile \in remote_files
              /\ EventsOf("delete_remote") = <<>>
              /\ EventsOf("remove_temp") = <<>>
        /\ \A i \in 1..n :
              events[i][1] = "remove_temp" =>
                  /\ \A j \in 1..n : events[j][1] = "delete_remote" => j < i
                  /\ Uploaded => \E j \in 1..(i - 1) : events[j][1] = "delete_remote"

\* C21's case: a call that succeeded after one retry and has returned, both
\* deletions done after the pacing sleep.
C21_Witness ==
    /\ pc = "return"
    /\ returned[1]
    /\ Len(events) = 9
    /\ events[3][1] = "generate" /\ Failed(events[3])
    /\ events[7] = Event("pace", DefaultApiDelay)
    /\ events[8] = Event("delete_remote", "ok")
    /\ events[9] = Event("remove_temp", "ok")


(***************************************************************************)
(* Properties of the session lists of a new batch, under RerunSpec         *)
(***************************************************************************)

\* C22: once analyze_pdfs has started, the three lists of the session have
\* the same length, the number of documents processed so far (none before
\* the first document); entry k of each list is about the k-th document of
\* this batch, and no entry of the earlier batch is among them.
C22_SessionConsistent ==
    pc # "ready" =>
        /\ Len(results) = idx
        /\ Len(filenames) = idx
        /\ Len(processing_status) = idx
        /\ \A k \in 1..idx :
              /\ filenames[k] = pdf_files[k][2]
              /\ filenames[k] # EarlierFilename
              /\ IF IsFailure(processing_status[k])
                 THEN /\ processing_status[k][2][2] = filenames[k]
                      /\ results[k] = ErrorDict(processing_status[k][2])
                 ELSE /\ processing_status[k] = SuccessStatus
                      /\ results[k].t = "dict"

\* C22's case: in a session that held an earlier batch, the first document of
\* a batch of two has been processed and stored.
C22_Witness ==
    /\ pc = "loop"
    /\ Len(pdf_files) = 2
    /\ idx = 1
    /\ filenames = <<FileName(1)>>
    /\ Len(results) = 1
    /\ processing_status = <<SuccessStatus>>

=============================================================================
